---- MODULE Spec2Model ----
(***************************************************************************)
(* Typebridge (typebridge.c): the type store mid_map, the catalogue        *)
(* scanner scanTypes, the operator locator findOperator, the reachability  *)
(* marking require and the data-set compiler resolveTRDPDataSets.          *)
(*                                                                         *)
(* C strings are TLA+ strings.  A char* that may be NULL is a sequence of  *)
(* length 0 (NULL) or 1 (<<s>>, the string s), so that NULL and the empty  *)
(* string "" stay different values.                                        *)
(***************************************************************************)
EXTENDS Integers, Sequences, FiniteSets, TLC

\* ------------------------------------------------------------------ bounds

\* Size of mid_map.  The source has 0x4000; the model keeps the table small.
SCADE_MIDs == 5

\* Number of input/output parameters of one operator that are visited.
MaxParams == 2

\* Number of nodes below <model> of the operator hierarchy of a document.
MaxNodes == 3

\* Largest identifier that a document of the whole pipeline (Spec) uses.
MaxId == 3

\* ------------------------------------------------------- program constants

DATASET_NAME_LEN == 30

KCG_SIZE_MAPS_TO == 6

DSID_OFFSET == 1000

\* (size_t)-1, the maxlen scanTypes_recurse_pkg passes for package prefixes.
SIZE_MAX == 2147483647

NULL == <<>>

Str(s) == <<s>>

ScadeBaseTypes ==
    << "", "bool", "char", "wchar", "int8", "int16", "int32", "int64",
       "uint8", "uint16", "uint32", "uint64", "float32", "float64",
       "timedate32", "timedate48", "timedate64", "size" >>

ScadeTypeIdx2TRDP ==
    << "", "BOOL8", "CHAR8", "UTF16", "INT8", "INT16", "INT32", "INT64",
       "UINT8", "UINT16", "UINT32", "UINT64", "REAL32", "REAL64",
       "TIMEDATE32", "TIMEDATE48", "TIMEDATE64" >>

\* count_of(a): C arrays are 0-based, the sequences above 1-based.
count_of(a) == Len(a)

\* ------------------------------------------------------------ the store

\* type_entry_t; a static object, so every field starts as 0 / NULL.
type_entry_t ==
    [dataSetId |-> "", dsid |-> 0, ref_cnt |-> 0, reference_of_mid |-> 0,
     size |-> 0, name |-> NULL]

VARIABLES
    mid_map,    \* the store, indexed 0 .. SCADE_MIDs-1
    pc,         \* position of main / scanTypes
    cur,        \* scanTypes: id of the <struct> whose fields are being read
    fields,     \* scanTypes: the local counter "fields" of that struct
    op,         \* result of findOperator: "none" (not called), "null", "found"
    params,     \* number of parameters of the operator visited so far
    out,        \* result of resolveTRDPDataSets
    added,      \* what the latest call of addType returned: "true", "false",
                \* or "none" when the latest step called something else
    defined     \* history: ids for which addType has returned true

vars == <<mid_map, pc, cur, fields, op, params, out, added, defined>>

\* ---------------------------------------------------------------- addType

addTypeOverwrite(m, mid, name, type, dsid, cnt) ==
    IF mid > 0 /\ mid < SCADE_MIDs
    THEN IF dsid <= 0 \/ dsid >= count_of(ScadeTypeIdx2TRDP)
         THEN [ret |-> TRUE,
               map |-> [m EXCEPT ![mid] =
                          [dataSetId |-> ToString(DSID_OFFSET + mid),
                           dsid |-> DSID_OFFSET + mid, ref_cnt |-> 0,
                           reference_of_mid |-> type, size |-> cnt,
                           name |-> name]]]
         ELSE [ret |-> TRUE,
               map |-> [m EXCEPT ![mid] =
                          [dataSetId |-> ScadeTypeIdx2TRDP[dsid + 1],
                           dsid |-> dsid, ref_cnt |-> 0,
                           reference_of_mid |-> -1, size |-> 0,
                           name |-> NULL]]]
    ELSE [ret |-> FALSE, map |-> m]

\* bool addType(long mid, const char *name, long type, long dsid, long cnt)
addType(m, mid, name, type, dsid, cnt) ==
    IF mid > 0 /\ mid < SCADE_MIDs
    THEN IF m[mid].dsid <= 0
         THEN IF dsid <= 0 \/ dsid >= count_of(ScadeTypeIdx2TRDP)
              THEN [ret |-> TRUE,
                    map |-> [m EXCEPT ![mid] =
                               [dataSetId |-> ToString(DSID_OFFSET + mid),
                                dsid |-> DSID_OFFSET + mid, ref_cnt |-> 0,
                                reference_of_mid |-> type, size |-> cnt,
                                name |-> name]]]
              ELSE [ret |-> TRUE,
                    map |-> [m EXCEPT ![mid] =
                               [dataSetId |-> ScadeTypeIdx2TRDP[dsid + 1],
                                dsid |-> dsid, ref_cnt |-> 0,
                                reference_of_mid |-> -1, size |-> 0,
                                name |-> NULL]]]
         ELSE [ret |-> FALSE, map |-> m]
    ELSE [ret |-> FALSE, map |-> m]

\* ------------------------------------------------------- name stitching

\* strndup(s, n): the leading n characters of s.
strndup(s, n) == IF Len(s) <= n THEN s ELSE SubSeq(s, 1, n)

strndup2KeepFront(s1, s2, sep, maxlen) ==
    IF (s1 = NULL /\ s2 = NULL) \/ maxlen = 0 THEN NULL
    ELSE IF s2 = NULL THEN Str(strndup(s1[1], maxlen))
    ELSE IF s1 = NULL THEN Str(strndup(s2[1], maxlen))
    ELSE Str(strndup(s1[1] \o sep \o s2[1], maxlen))

\* char *strndup2(const char *s1, const char *s2, char sep, size_t maxlen)
\* (malloc is taken to succeed).
strndup2(s1, s2, sep, maxlen) ==
    IF (s1 = NULL /\ s2 = NULL) \/ maxlen = 0 THEN NULL
    ELSE IF s2 = NULL THEN Str(strndup(s1[1], maxlen))
    ELSE IF s1 = NULL THEN Str(strndup(s2[1], maxlen))
    ELSE LET l == Len(s1[1]) + 1 + Len(s2[1])
             s == s1[1] \o sep \o s2[1]
         IN  IF l > maxlen
             THEN Str(SubSeq(s, (l - maxlen) + 1, l))
             ELSE Str(s)

\* bool propagateName(long mid, const char *name, const char *pkgname)
propagateName(m, mid, name, pkgname) ==
    IF mid > 0 /\ mid < SCADE_MIDs
    THEN IF m[mid].reference_of_mid < 0 /\ m[mid].size > 0
         THEN IF m[mid].dsid > 0
              THEN IF m[mid].name = NULL
                   THEN [ret |-> TRUE,
                         map |-> [m EXCEPT ![mid].name =
                                    strndup2(pkgname, name, "_",
                                             DATASET_NAME_LEN)]]
                   ELSE [ret |-> FALSE, map |-> m]
              ELSE [ret |-> FALSE, map |-> m]
         ELSE [ret |-> FALSE, map |-> m]
    ELSE [ret |-> FALSE, map |-> m]

\* ---------------------------------------------------------------- require

B2I(b) == IF b THEN 1 ELSE 0

\* A call chain of require that is deeper than the table has entries holds
\* some id twice.  The store's referenceOf and size fields do not change
\* while require runs, so such a call re-enters itself for ever: the
\* recursion is unbounded (term = FALSE) and the process dies of it.
MaxDepth == SCADE_MIDs

RECURSIVE require(_, _, _), requireFields(_, _, _, _, _)

RECURSIVE requireFieldsButLast(_, _, _, _, _)

requireFieldsButLast(m, mid, i, sub, depth) ==
    IF i < m[mid].size
    THEN LET r == require(m, mid + i, depth)
         IN  IF r.term
             THEN requireFieldsButLast(r.map, mid, i + 1, sub + r.ret, depth)
             ELSE [ret |-> sub, map |-> r.map, term |-> FALSE]
    ELSE [ret |-> sub, map |-> m, term |-> TRUE]

\* int require(long mid); depth is the number of active frames.
\* Gives [ret, map, term].
require(m, mid, depth) ==
    IF mid > 0 /\ mid < SCADE_MIDs
    THEN IF depth > MaxDepth
         THEN [ret |-> 0, map |-> m, term |-> FALSE]
         ELSE LET sub == m[mid].size
                  m1  == [m EXCEPT ![mid].ref_cnt = @ + 1]
              IN  IF m1[mid].reference_of_mid > 0
                  THEN IF m1[mid].reference_of_mid = mid
                       THEN [ret |-> B2I(sub > 0), map |-> m1, term |-> TRUE]
                       ELSE LET r == require(m1, m1[mid].reference_of_mid,
                                             depth + 1)
                            IN  [ret  |-> B2I(sub + r.ret > 0),
                                 map  |-> r.map,
                                 term |-> r.term]
                  ELSE LET r == requireFields(m1, mid, 1, sub, depth + 1)
                       IN  [ret  |-> B2I(r.ret > 0),
                            map  |-> r.map,
                            term |-> r.term]
    ELSE [ret |-> 0, map |-> m, term |-> TRUE]

\* for (long i=1; i<=mid_map[mid].size; i++) sub += require(mid+i);
requireFields(m, mid, i, sub, depth) ==
    IF i <= m[mid].size
    THEN LET r == require(m, mid + i, depth)
         IN  IF r.term
             THEN requireFields(r.map, mid, i + 1, sub + r.ret, depth)
             ELSE [ret |-> sub, map |-> r.map, term |-> FALSE]
    ELSE [ret |-> sub, map |-> m, term |-> TRUE]

\* ------------------------------------------------- resolveTRDPDataSets

\* What a read of mid_map[j] with j >= SCADE_MIDs gives (the inner loop runs
\* j up to i + size without a range check): the process is killed ("segv"),
\* or the memory behind the table reads as zeroes ("zero") or as something
\* whose reference_of_mid is negative ("junk").
OutOfBounds == {"segv", "zero", "junk"}

JunkEntry ==
    [type_entry_t EXCEPT !.reference_of_mid = -1, !.dataSetId = "?"]

\* mid_map[j]
At(m, j, oob) ==
    IF j < SCADE_MIDs THEN m[j]
    ELSE IF oob = "zero" THEN type_entry_t ELSE JunkEntry

\* The loop "while (mid_map[k].reference_of_mid >= 0)" moves k along the
\* reference_of_mid fields only; more steps than the table has entries
\* means that k has taken a value twice and the loop never ends ("hang").
MaxSteps == SCADE_MIDs

RECURSIVE followChain(_, _, _, _, _, _, _)

\* The while loop of lines 448-464 for the element j of data-set i, with e
\* the entry mid_map[k]; array is the local of that name, attr the
\* array-size attribute set so far, log the diagnostics written.
\* Gives [status, type, attr, log].
followChain(m, i, j, e, array, acc, steps) ==
    IF e.reference_of_mid >= 0
    THEN IF steps > MaxSteps
         THEN [acc EXCEPT !.status = "hang"]
         ELSE LET k  == e.reference_of_mid
                  ek == m[k]
              IN  IF ek.reference_of_mid >= 0 /\ ek.size > 0
                  THEN IF array = 0
                       THEN followChain(m, i, j, ek, k,
                                [acc EXCEPT !.attr = Str(ToString(ek.size))],
                                steps + 1)
                       ELSE followChain(m, i, j, ek, array,
                                [acc EXCEPT !.log = Append(@,
                                    [ds |-> m[i].dataSetId, el |-> j,
                                     dim1 |-> m[array].size,
                                     dim2 |-> ek.size])],
                                steps + 1)
                  ELSE followChain(m, i, j, ek, array, acc, steps + 1)
    ELSE [acc EXCEPT !.type = e.dataSetId]

\* One pass of the loop over j (lines 443-466): the <element> of field j.
element(m, i, j, oob) ==
    IF j >= SCADE_MIDs /\ oob = "segv"
    THEN [status |-> "segv", mid |-> j, name |-> NULL, type |-> "",
          attr |-> NULL, log |-> <<>>]
    ELSE followChain(m, i, j, At(m, j, oob), 0,
             [status |-> "ok", mid |-> j, name |-> At(m, j, oob).name,
              type |-> "", attr |-> NULL, log |-> <<>>], 1)

RECURSIVE elements(_, _, _, _, _)

\* for (long j=i+1; j<=(i+mid_map[i].size); j++)
\* Gives [status, els, log].
elements(m, i, j, oob, acc) ==
    IF j <= i + m[i].size
    THEN LET el == element(m, i, j, oob)
         IN  IF el.status = "ok"
             THEN elements(m, i, j + 1, oob,
                      [acc EXCEPT !.els = Append(@,
                                      [mid |-> el.mid, name |-> el.name,
                                       type |-> el.type,
                                       array_size |-> el.attr]),
                                  !.log = @ \o el.log])
             ELSE [acc EXCEPT !.status = el.status, !.log = @ \o el.log]
    ELSE acc

isRootAnyRefCount(m, i, requiredOnly) ==
    /\ m[i].reference_of_mid <= 0
    /\ m[i].size > 0

\* The condition of lines 434-437 that makes entry i a <data-set>.
isRoot(m, i, requiredOnly) ==
    /\ m[i].reference_of_mid <= 0
    /\ m[i].size > 0
    /\ m[i].ref_cnt > (-1 + B2I(requiredOnly))

nextIndexNoSkip(m, i) == i + 1

\* i += mid_map[i].size; followed by the i++ of the for loop.
nextIndex(m, i) == i + m[i].size + 1

RECURSIVE scanMidMap(_, _, _, _, _)

\* for(long i=0; i<SCADE_MIDs; i++) of resolveTRDPDataSets.
scanMidMap(m, i, requiredOnly, oob, acc) ==
    IF i < SCADE_MIDs
    THEN IF isRoot(m, i, requiredOnly)
         THEN LET r == elements(m, i, i + 1, oob,
                           [status |-> "ok", els |-> <<>>, log |-> <<>>])
              IN  IF r.status = "ok"
                  THEN scanMidMap(m, nextIndex(m, i), requiredOnly, oob,
                           [acc EXCEPT !.list = Append(@,
                                           [mid |-> i,
                                            id |-> m[i].dataSetId,
                                            name |-> m[i].name,
                                            elements |-> r.els]),
                                       !.log = @ \o r.log])
                  ELSE [status |-> r.status, list |-> <<>>,
                        log |-> acc.log \o r.log]
         ELSE scanMidMap(m, i + 1, requiredOnly, oob, acc)
    ELSE acc

\* mxml_node_t *resolveTRDPDataSets(bool requiredOnly)
\* Gives [status, list, log]: status "ok" when the function returns, and
\* then list is the <data-set-list>; "hang" / "segv" when it does not.
\* Each data-set and element also carries the index (mid) it was made of.
resolveTRDPDataSets(m, requiredOnly, oob) ==
    scanMidMap(m, 0, requiredOnly, oob,
               [status |-> "ok", list |-> <<>>, log |-> <<>>])

\* ----------------------------------------------------------- findOperator

\* The part of the document below <model> that findOperator walks: the
\* <package> and <operator> elements in document order, each with its depth
\* below <model> (1: a child of <model>).  Node 0 is <model> itself and
\* NoNode the NULL node pointer.
NoNode == -1

NodeNames == {"P", "X"}

Node == [depth : 1..MaxNodes, kind : {"package", "operator"}, name : NodeNames]

WellFormedDoc(d) ==
    \A i \in 1..Len(d) :
        IF i = 1 THEN d[i].depth = 1
        ELSE /\ d[i].depth <= d[i-1].depth + 1
             /\ d[i].depth = d[i-1].depth + 1 => d[i-1].kind = "package"

Docs ==
    UNION { {d \in [1..n -> Node] : WellFormedDoc(d)} : n \in 0..MaxNodes }

\* root_name: the operator name given on the command line or read from the
\* option "root"; NULL when neither is there.
RootNames ==
    {NULL} \cup {Str(s) : s \in {"X", "P", "P::X", "P::P::X", "X::X"}}

DepthOf(d, p) == IF p = 0 THEN 0 ELSE d[p].depth

\* The last node of the subtree of p.
SubtreeEnd(d, p) ==
    IF p = 0 THEN Len(d)
    ELSE LET stop == {q \in (p+1)..Len(d) : d[q].depth <= d[p].depth}
         IN  IF stop = {} THEN Len(d)
             ELSE (CHOOSE q \in stop : \A r \in stop : q <= r) - 1

Children(d, p) ==
    {q \in (p+1)..SubtreeEnd(d, p) : d[q].depth = DepthOf(d, p) + 1}

Min(S) == CHOOSE x \in S : \A y \in S : x <= y

\* mxmlFindElement(node, top, tag, "name", value, descend) of libmxml,
\* for the two ways findOperator calls it.  With MXML_DESCEND_FIRST (and
\* node = top) it tries the children of node in order; with MXML_DESCEND it
\* tries, in document order, every node after node in the subtree of top.
mxmlFindElement(d, node, top, tag, value, descend) ==
    IF node = NoNode \/ top = NoNode THEN NoNode
    ELSE LET tried == IF descend = "MXML_DESCEND_FIRST"
                      THEN Children(d, node)
                      ELSE (node+1)..SubtreeEnd(d, top)
             hits  == {q \in tried : d[q].kind = tag /\ d[q].name = value}
         IN  IF hits = {} THEN NoNode ELSE Min(hits)

\* strstr(s + from, sub): the place of the first sub in s at or after from,
\* 0 when there is none.
strstr(s, from, sub) ==
    LET at == {i \in from..(Len(s) - Len(sub) + 1) :
                  SubSeq(s, i, i + Len(sub) - 1) = sub}
    IN  IF at = {} THEN 0 ELSE Min(at)

RECURSIVE walkPackages(_, _, _, _)

\* The loop of lines 92-97: gives the package reached and the last token.
walkPackages(d, path, tok, pnode) ==
    LET ntok == strstr(path, tok, "::")
    IN  IF ntok # 0
        THEN walkPackages(d, path, ntok + 2,
                 mxmlFindElement(d, pnode, pnode, "package",
                                 SubSeq(path, tok, ntok - 1),
                                 "MXML_DESCEND_FIRST"))
        ELSE [pnode |-> pnode, tok |-> SubSeq(path, tok, Len(path))]

findOperatorFirstMatch(d, root_name) ==
    IF root_name # NULL
    THEN LET w    == walkPackages(d, root_name[1], 1, 0)
         IN  mxmlFindElement(d, w.pnode, w.pnode, "operator", w.tok,
                             "MXML_DESCEND")
    ELSE NoNode

\* mxml_node_t *findOperator(mxml_node_t *doc, const char *root_name)
findOperator(d, root_name) ==
    IF root_name # NULL
    THEN LET w    == walkPackages(d, root_name[1], 1, 0)
             root == mxmlFindElement(d, w.pnode, w.pnode, "operator", w.tok,
                                     "MXML_DESCEND")
         IN  IF root = NoNode THEN NoNode
             ELSE IF mxmlFindElement(d, root, w.pnode, "operator", w.tok,
                                     "MXML_DESCEND") # NoNode
                  THEN NoNode
                  ELSE root
    ELSE NoNode

\* ------------------------------------------------------------ scanTypes

\* attrToInt(node, "id" / "type" / "baseType", 1, SCADE_MIDs-1, &v): the
\* identifiers that reach addType.  A node whose attribute is outside this
\* range is skipped and changes nothing.
Ids == 1..(SCADE_MIDs - 1)

\* The identifiers in the documents of Spec.
DocIds == 1..MaxId

\* attrToInt(i, "type", 0, SCADE_MIDs-1, &mid) of getInputsForOperator.
ParamIds == 0..MaxId

\* attrToInt(tnode, "size", 1, 0xFFFF, &cnt): the array sizes tried.
ArraySizes == {2, 3}

PredefNames == {"int32", "size", "enum"}

FieldNames == {Str("x")}

TypeNames == {Str("DisplayNameOfTwentyEightChar")}

\* The name attributes of the packages around a <type>, outermost first.
PkgPaths == { <<Str("P")>>, <<Str("Outer"), Str("Inner")>> }

Max(S) == CHOOSE x \in S : \A y \in S : x >= y

\* long dsid = count_of(ScadeBaseTypes);
\* while (--dsid >= 0 && strcasecmp(sctype_name, ScadeBaseTypes[dsid]));
baseTypeIndex(sctype_name) ==
    LET hits == {i \in 0..(count_of(ScadeBaseTypes) - 1) :
                    ScadeBaseTypes[i + 1] = sctype_name}
    IN  IF hits = {} THEN -1 ELSE Max(hits)

RECURSIVE pkgName(_, _, _)

\* pkgname of scanTypes_recurse_pkg for the packages path[i..], below a
\* package whose own prefix is parentname.
pkgName(path, i, parentname) ==
    IF i > Len(path) THEN parentname
    ELSE pkgName(path, i + 1, strndup2(parentname, path[i], "_", SIZE_MAX))

scanTypeNodeAlways(m, mid, emid, name, pkgname) ==
    LET a == addType(m, mid, name, emid, -1, 0)
    IN  [ret |-> a.ret, map |-> propagateName(a.map, emid, name, pkgname).map]

\* addType(mid, name, emid, -1, 0) && propagateName(emid, name, pkgname);
\* ret is what addType returned.
scanTypeNode(m, mid, emid, name, pkgname) ==
    LET a == addType(m, mid, name, emid, -1, 0)
    IN  IF a.ret
        THEN [ret |-> TRUE,
              map |-> propagateName(a.map, emid, name, pkgname).map]
        ELSE [ret |-> FALSE, map |-> a.map]

NoOutput ==
    [status |-> "none", requiredOnly |-> FALSE, list |-> <<>>, log |-> <<>>]

Init ==
    /\ mid_map = [i \in 0..(SCADE_MIDs - 1) |-> type_entry_t]
    /\ pc = "predefType"
    /\ cur = 0
    /\ fields = 0
    /\ op = "none"
    /\ params = 0
    /\ out = NoOutput
    /\ added = "none"
    /\ defined = {}

\* The store and the history after a call of addType that gave r.
Define(r, mid) ==
    /\ mid_map' = r.map
    /\ added' = IF r.ret THEN "true" ELSE "false"
    /\ defined' = IF r.ret THEN defined \cup {mid} ELSE defined

\* One <predefType> node (lines 317-332).
ScanPredefType(mid, sctype_name) ==
    /\ pc = "predefType"
    /\ LET dsid == baseTypeIndex(sctype_name)
       IN  IF dsid > 0
           THEN Define(addType(mid_map, mid, NULL, -1,
                               IF dsid >= count_of(ScadeTypeIdx2TRDP)
                               THEN KCG_SIZE_MAPS_TO ELSE dsid, 0), mid)
           ELSE /\ added' = "none"
                /\ UNCHANGED <<mid_map, defined>>
    /\ UNCHANGED <<pc, cur, fields, op, params, out>>

\* One <array> node (lines 335-345).
ScanArray(mid, emid, cnt) ==
    /\ pc = "array"
    /\ Define(addType(mid_map, mid, NULL, emid, -1, cnt), mid)
    /\ UNCHANGED <<pc, cur, fields, op, params, out>>

\* A <struct> node is entered (lines 348-353).
ScanStruct(mid) ==
    /\ pc = "struct"
    /\ pc' = "field"
    /\ cur' = mid
    /\ fields' = 0
    /\ added' = "none"
    /\ UNCHANGED <<mid_map, op, params, out, defined>>

\* One <field> node of the struct (lines 354-364).
ScanField(fmid, emid, name) ==
    /\ pc = "field"
    /\ LET r == addType(mid_map, fmid, name, emid, -1, 0)
       IN  /\ Define(r, fmid)
           /\ fields' = fields + B2I(r.ret)
    /\ UNCHANGED <<pc, cur, op, params, out>>

\* The struct has no more fields (lines 365-366).
ScanStructEnd ==
    /\ pc = "field"
    /\ Define(addType(mid_map, cur, NULL, -1, -1, fields), cur)
    /\ pc' = "struct"
    /\ cur' = 0
    /\ fields' = 0
    /\ UNCHANGED <<op, params, out>>

\* One <type> node directly below <model> (lines 376-388).
ScanType(mid, emid, name) ==
    /\ pc = "type"
    /\ Define(scanTypeNode(mid_map, mid, emid, name, NULL), mid)
    /\ UNCHANGED <<pc, cur, fields, op, params, out>>

\* One <type> node inside packages (scanTypes_recurse_pkg, lines 288-301).
ScanPkgType(mid, emid, name, path) ==
    /\ pc = "package"
    /\ Define(scanTypeNode(mid_map, mid, emid, name, pkgName(path, 1, NULL)),
              mid)
    /\ UNCHANGED <<pc, cur, fields, op, params, out>>

NextPassOf(p) ==
    CASE p = "predefType" -> "array"
      [] p = "array"      -> "struct"
      [] p = "struct"     -> "type"
      [] p = "type"       -> "package"
      [] p = "package"    -> "operator"

\* A loop of scanTypes finds no further node.
EndPass ==
    /\ pc \in {"predefType", "array", "struct", "type", "package"}
    /\ pc' = NextPassOf(pc)
    /\ added' = "none"
    /\ UNCHANGED <<mid_map, cur, fields, op, params, out, defined>>

\* ------------------------------------------------------------------ main

\* Whether findOperator gives an operator, for every document and operator
\* name of the bounds.
LocatorResults == {findOperator(d, n) # NoNode : d \in Docs, n \in RootNames}

\* mxml_node_t *op = findOperator(itree, oname);
\* One operator name is resolved in a run.
FindOperator(found) ==
    /\ pc = "operator"
    /\ pc' = "params"
    /\ op' = IF found THEN "found" ELSE "null"
    /\ params' = 0
    /\ added' = "none"
    /\ UNCHANGED <<mid_map, cur, fields, out, defined>>

\* One <input> or <output> of the operator (getInputsForOperator and
\* getOutputsForOperator, lines 399-408 and 417-426): req += require(mid).
\* With op = NULL the loops find no node.
VisitParam(mid) ==
    /\ pc = "params"
    /\ op = "found"
    /\ params < MaxParams
    /\ LET r == require(mid_map, mid, 1)
       IN  /\ mid_map' = r.map
           /\ pc' = IF r.term THEN "params" ELSE "overflow"
    /\ params' = params + 1
    /\ added' = "none"
    /\ UNCHANGED <<cur, fields, op, out, defined>>

\* mxml_node_t *dataSetList = resolveTRDPDataSets( requiredOnly );
\* called when the operator has no more parameters.
Compile(requiredOnly, oob) ==
    /\ pc = "params"
    /\ LET r == resolveTRDPDataSets(mid_map, requiredOnly, oob)
       IN  /\ out' = [status |-> r.status, requiredOnly |-> requiredOnly,
                      list |-> r.list, log |-> r.log]
           /\ pc' = IF r.status = "ok" THEN "done" ELSE r.status
    /\ added' = "none"
    /\ UNCHANGED <<mid_map, cur, fields, op, params, defined>>

\* The whole pipeline, on documents that use the identifiers 1 .. MaxId.
Next ==
    \/ \E mid \in DocIds, n \in PredefNames : ScanPredefType(mid, n)
    \/ \E mid \in DocIds, emid \in DocIds, cnt \in ArraySizes :
           ScanArray(mid, emid, cnt)
    \/ \E mid \in DocIds : ScanStruct(mid)
    \/ \E fmid \in DocIds, emid \in DocIds, n \in FieldNames :
           ScanField(fmid, emid, n)
    \/ ScanStructEnd
    \/ \E mid \in DocIds, emid \in DocIds, n \in TypeNames :
           ScanType(mid, emid, n)
    \/ \E mid \in DocIds, emid \in DocIds, n \in TypeNames, p \in PkgPaths :
           ScanPkgType(mid, emid, n, p)
    \/ EndPass
    \/ \E found \in LocatorResults : FindOperator(found)
    \/ \E mid \in ParamIds : VisitParam(mid)
    \/ \E ro \in BOOLEAN, oob \in OutOfBounds : Compile(ro, oob)

Spec == Init /\ [][Next]_vars

\* Documents that hold <array> and <struct> nodes only, with every
\* identifier of the table, and an operator without parameters.
NextStructs ==
    \/ \E mid \in Ids, emid \in Ids, cnt \in ArraySizes :
           ScanArray(mid, emid, cnt)
    \/ \E mid \in Ids : ScanStruct(mid)
    \/ \E fmid \in Ids, emid \in Ids, n \in FieldNames :
           ScanField(fmid, emid, n)
    \/ ScanStructEnd
    \/ EndPass
    \/ \E found \in LocatorResults : FindOperator(found)
    \/ \E ro \in BOOLEAN, oob \in OutOfBounds : Compile(ro, oob)

SpecStructs == Init /\ [][NextStructs]_vars

\* ---------------------------------------------------------------- claims

InRange(id) == id > 0 /\ id < SCADE_MIDs

\* The variants of an entry: a structure Fields(n), an Alias, a primitive.
IsFields(m, id) ==
    InRange(id) /\ m[id].reference_of_mid < 0 /\ m[id].dsid > DSID_OFFSET

IsAlias(m, id) == InRange(id) /\ m[id].reference_of_mid > 0

IsPrimitive(m, id) ==
    InRange(id) /\ m[id].reference_of_mid < 0 /\ m[id].dsid > 0
                /\ m[id].dsid <= DSID_OFFSET

\* The Alias and Fields edges that leave entry id.  The edge of an entry
\* that aliases itself is the one require cuts.
Edges(m, id) ==
    IF ~InRange(id) THEN {}
    ELSE IF IsAlias(m, id)
         THEN {m[id].reference_of_mid} \ {id}
         ELSE {id + i : i \in 1..m[id].size} \cap Ids

RECURSIVE ReachIn(_, _, _)

\* The entries reachable from the entries of S (S included).
ReachIn(m, S, n) ==
    LET T == S \cup UNION {Edges(m, id) : id \in S}
    IN  IF T = S \/ n = 0 THEN S ELSE ReachIn(m, T, n - 1)

Reach(m, id) == ReachIn(m, {id}, SCADE_MIDs)

RECURSIVE SumOver(_, _, _, _, _)

RECURSIVE NPaths(_, _, _, _)

\* The number of paths of Alias / Fields edges from entry from to entry to,
\* counting paths of at most n edges.
NPaths(m, from, to, n) ==
    (IF from = to THEN 1 ELSE 0)
    + (IF n = 0 THEN 0 ELSE SumOver(m, Edges(m, from), to, n - 1, 0))

SumOver(m, S, to, n, acc) ==
    IF S = {} THEN acc
    ELSE LET x == Min(S)
         IN  SumOver(m, S \ {x}, to, n, acc + NPaths(m, x, to, n))

\* C1 as stated: one call require(id) on a Fields(n) entry adds exactly 1
\* to the refCount of every entry reachable from id, however many paths
\* lead to it, and refCounts never decrease.
C1_ExactlyOnce ==
    [][ /\ \A e \in DOMAIN mid_map : mid_map'[e].ref_cnt >= mid_map[e].ref_cnt
        /\ \A id \in ParamIds :
             (VisitParam(id) /\ IsFields(mid_map, id) /\ pc' = "params")
             => \A e \in DOMAIN mid_map :
                   mid_map'[e].ref_cnt =
                       mid_map[e].ref_cnt
                       + (IF e \in Reach(mid_map, id) THEN 1 ELSE 0) ]_vars

\* C1 as amended: a call require(id) on a Fields(n) entry that returns adds
\* to the refCount of every entry the number of Alias / Fields paths that
\* lead from id to it: at least 1 for id, its following field entries and
\* every entry reachable from them, nothing for the others; and refCounts
\* never decrease.
C1_OncePerPath ==
    [][ /\ \A e \in DOMAIN mid_map : mid_map'[e].ref_cnt >= mid_map[e].ref_cnt
        /\ \A id \in ParamIds :
             (VisitParam(id) /\ IsFields(mid_map, id) /\ pc' = "params")
             => \A e \in DOMAIN mid_map :
                   /\ mid_map'[e].ref_cnt =
                          mid_map[e].ref_cnt
                          + NPaths(mid_map, id, e, SCADE_MIDs)
                   /\ e \in Reach(mid_map, id)
                          <=> mid_map'[e].ref_cnt > mid_map[e].ref_cnt ]_vars

\* One call of require on a structure has counted a reachable entry twice.
C1_Witness ==
    /\ pc = "params"
    /\ params = 1
    /\ \E id \in Ids, e \in Ids :
          /\ IsFields(mid_map, id)
          /\ mid_map[id].size > 1
          /\ mid_map[id].ref_cnt = 1
          /\ e \in Reach(mid_map, id)
          /\ mid_map[e].ref_cnt = 2

\* The data-sets of the list that compile returned.
Emitted == {out.list[n] : n \in 1..Len(out.list)}

\* C2: every data-set that compile emits is an entry Fields(n) with n > 0,
\* and in required-only mode its refCount is > 0.
C2_OnlyRootsEmitted ==
    pc = "done" =>
        \A ds \in Emitted :
            /\ IsFields(mid_map, ds.mid)
            /\ mid_map[ds.mid].size > 0
            /\ ds.id = mid_map[ds.mid].dataSetId
            /\ out.requiredOnly => mid_map[ds.mid].ref_cnt > 0

\* Required-only compile has emitted a required data-set and left out a
\* required structure that has no fields.
C2_Witness ==
    /\ pc = "done"
    /\ out.requiredOnly
    /\ \E ds \in Emitted : mid_map[ds.mid].ref_cnt > 0
    /\ \E b \in Ids :
          /\ IsFields(mid_map, b) /\ mid_map[b].size = 0
          /\ mid_map[b].ref_cnt > 0
          /\ \A ds \in Emitted : ds.mid # b

\* C3: compile with includeAllKnown = true emits one data-set for every
\* entry Fields(n) with n > 0, whatever structures precede it.
C3_AllKnownEmitted ==
    (pc = "done" /\ ~out.requiredOnly) =>
        \A id \in Ids :
            (IsFields(mid_map, id) /\ mid_map[id].size > 0)
            => Cardinality({n \in 1..Len(out.list) : out.list[n].mid = id}) = 1

\* Every structure is followed by its fields: the entries id+1 .. id+n of
\* an entry Fields(n) lie in the table and are plain aliases, as the struct
\* pass makes them.
FieldsFollow(m) ==
    \A id \in Ids :
        IsFields(m, id) =>
            \A i \in 1..m[id].size :
                InRange(id + i) /\ IsAlias(m, id + i) /\ m[id + i].size = 0

\* compile has been called.
Compiled == pc \in {"done", "hang", "segv"}

\* The entries compile takes as data-set roots, as section 4.5 states it.
Selected(m, id) ==
    /\ IsFields(m, id)
    /\ m[id].size > 0
    /\ out.requiredOnly => m[id].ref_cnt > 0

RECURSIVE ChainOf(_, _, _)

\* The Alias chain that starts at entry j: j, the entry j aliases, and so
\* on up to the first entry that is no Alias (at most n links further).
ChainOf(m, j, n) ==
    IF IsAlias(m, j) /\ n > 0
    THEN <<j>> \o ChainOf(m, m[j].reference_of_mid, n - 1)
    ELSE <<j>>

Chain(m, j) == ChainOf(m, j, SCADE_MIDs)

\* The places of the array links of a chain.
ArrayLinks(m, c) == {p \in 1..Len(c) : IsAlias(m, c[p]) /\ m[c[p]].size > 0}

\* The chain ends in a primitive or a structure.
Resolves(m, c) == IsPrimitive(m, c[Len(c)]) \/ IsFields(m, c[Len(c)])

\* C4: compile terminates and returns a list for every store the scanner
\* can leave behind, also when the alias chain of a field of a selected
\* structure reaches an identifier that was never defined or an entry that
\* aliases itself.  (Stated for the stores in which the fields follow
\* their structure.)
C4_CompileReturns == FieldsFollow(mid_map) => pc # "hang"

\* C5: require terminates for every identifier and every store; no chain
\* of Alias / Fields edges makes the recursion unbounded.  (Stated for the
\* stores in which the fields follow their structure.)
C5_RequireReturns == FieldsFollow(mid_map) => pc # "overflow"

\* C6: when the alias chain of a field of a selected structure holds two
\* or more array links, compile reports a diagnostic that names the
\* data-set, the element and the dimensions, still emits the element and
\* what follows it, and the element has the array-size of the first array
\* link of the chain and the type of the final link.  (Stated for the
\* stores in which the fields follow their structure.)
C6_ArrayOfArray ==
    (Compiled /\ FieldsFollow(mid_map)) =>
        \A i \in Ids : Selected(mid_map, i) =>
            \A j \in (i + 1)..(i + mid_map[i].size) :
                LET c == Chain(mid_map, j)
                    a == ArrayLinks(mid_map, c)
                IN  Cardinality({c[p] : p \in a}) >= 2 =>
                      /\ out.status = "ok"
                      /\ \E n \in 1..Len(out.log) :
                            /\ out.log[n].ds = mid_map[i].dataSetId
                            /\ out.log[n].el = j
                            /\ out.log[n].dim1 = mid_map[c[Min(a)]].size
                      /\ \E n \in 1..Len(out.list) :
                            /\ out.list[n].mid = i
                            /\ Len(out.list[n].elements) = mid_map[i].size
                            /\ LET el == out.list[n].elements[j - i]
                               IN  /\ el.array_size =
                                        Str(ToString(mid_map[c[Min(a)]].size))
                                   /\ el.type = mid_map[c[Len(c)]].dataSetId

\* What C6 states holds whenever compile returns.
C6_WhenCompileReturns == pc = "done" => C6_ArrayOfArray

RECURSIVE Segments(_, _)

\* The segments of a scoped name, "P::X" giving <<"P", "X">>.
Segments(path, from) ==
    LET sep == strstr(path, from, "::")
    IN  IF sep = 0 THEN <<SubSeq(path, from, Len(path))>>
        ELSE <<SubSeq(path, from, sep - 1)>> \o Segments(path, sep + 2)

RECURSIVE Scope(_, _, _, _)

\* The package the namespace segments segs[k..] lead to from package p
\* (0 is the document), NoNode when a segment names no package there.
Scope(d, segs, k, p) ==
    IF k > Len(segs) THEN p
    ELSE LET c == {q \in Children(d, p) :
                      d[q].kind = "package" /\ d[q].name = segs[k]}
         IN  IF c = {} THEN NoNode ELSE Scope(d, segs, k + 1, Min(c))

\* The three ways section 4.4 lists for a resolution to fail.
ResolutionFails(d, n) ==
    LET segs  == Segments(n[1], 1)
        scope == Scope(d, SubSeq(segs, 1, Len(segs) - 1), 1, 0)
        ops   == {q \in (scope + 1)..SubtreeEnd(d, scope) :
                     d[q].kind = "operator" /\ d[q].name = segs[Len(segs)]}
    IN  \/ scope = NoNode
        \/ ops = {}
        \/ Cardinality(ops) > 1

\* The locator yields no operator on every failing resolution.
LocatorFails ==
    \A d \in Docs : \A n \in RootNames \ {NULL} :
        ResolutionFails(d, n) => findOperator(d, n) = NoNode

\* Every way of failing happens in some document, and some resolution
\* succeeds.
LocatorCases ==
    /\ \E d \in Docs :
          /\ ResolutionFails(d, Str("P::X"))
          /\ \E q \in 1..Len(d) : d[q].kind = "operator" /\ d[q].name = "X"
    /\ \E d \in Docs :
          /\ findOperatorFirstMatch(d, Str("X")) # NoNode
          /\ ResolutionFails(d, Str("X"))
    /\ \E d \in Docs : findOperator(d, Str("P::X")) # NoNode

\* Without an operator no parameter is visited and every refCount is 0.
NothingRequired ==
    op = "null" => params = 0 /\ \A e \in DOMAIN mid_map : mid_map[e].ref_cnt = 0

\* Without an operator required-only compile returns the empty list.
RequiredOnlyEmpty ==
    (op = "null" /\ Compiled /\ out.requiredOnly) =>
        out.status = "ok" /\ out.list = <<>>

\* Include-all compile emits every structure that has fields.
IncludeAllEmits ==
    (op = "null" /\ ~out.requiredOnly) =>
        /\ out.status = "ok"
        /\ \A id \in Ids : Selected(mid_map, id) =>
              Cardinality({n \in 1..Len(out.list) : out.list[n].mid = id}) = 1

\* C7: when operator resolution fails (a namespace segment is unresolved,
\* the operator name is absent, or the name is there more than once in
\* the resolved scope) the locator yields no operator, require is never
\* called so every refCount stays 0, required-only compile returns an
\* empty list and include-all compile still emits all known data-sets.
\* (Stated for the stores in which the fields follow their structure.)
C7_ResolutionFailure ==
    /\ LocatorFails
    /\ NothingRequired
    /\ RequiredOnlyEmpty
    /\ (Compiled /\ FieldsFollow(mid_map)) => IncludeAllEmits

\* What C7 states holds whenever compile returns.
C7_WhenCompileReturns ==
    /\ LocatorFails
    /\ LocatorCases
    /\ NothingRequired
    /\ RequiredOnlyEmpty
    /\ (pc = "done" /\ FieldsFollow(mid_map)) => IncludeAllEmits

\* A step of the scanner that calls define on the identifier mid.
DefineStep(mid) ==
    \/ \E n \in PredefNames : baseTypeIndex(n) > 0 /\ ScanPredefType(mid, n)
    \/ \E emid \in Ids, cnt \in ArraySizes : ScanArray(mid, emid, cnt)
    \/ \E emid \in Ids, n \in FieldNames : ScanField(mid, emid, n)
    \/ cur = mid /\ ScanStructEnd
    \/ \E emid \in Ids, n \in TypeNames : ScanType(mid, emid, n)
    \/ \E emid \in Ids, n \in TypeNames, p \in PkgPaths :
           ScanPkgType(mid, emid, n, p)

\* Identifiers on both sides of the identifier range.
OutOfRangeIds == {-1, 0, SCADE_MIDs, SCADE_MIDs + 1}

\* A define with an out-of-range identifier returns false and changes no
\* entry of the store m.
OutOfRangeRejected(m) ==
    \A mid \in OutOfRangeIds, name \in {NULL} \cup FieldNames,
       type \in {-1} \cup Ids, dsid \in {-1, 1}, cnt \in {0, 2} :
        addType(m, mid, name, type, dsid, cnt) = [ret |-> FALSE, map |-> m]

\* C8: a define on an identifier that is already defined returns false
\* and leaves datasetId, datasetCode, referenceOf, size, name and refCount
\* of the first definition unchanged; a define with an out-of-range
\* identifier returns false and changes no entry.
C8_DefineOnce ==
    /\ [](OutOfRangeRejected(mid_map))
    /\ [][ \A mid \in Ids :
             (DefineStep(mid) /\ mid \in defined) =>
                 /\ added' = "false"
                 /\ mid_map'[mid] = mid_map[mid] ]_vars

\* A define has just been refused on an identifier that holds a named
\* entry or a structure with fields.
C8_Witness ==
    /\ added = "false"
    /\ pc \in {"array", "field", "struct", "type", "package"}
    /\ \E mid \in defined :
          mid_map[mid].name # NULL \/ mid_map[mid].size > 0

RECURSIVE Prefix(_, _)

\* The namespace prefix of the packages path[1..k], joined by "_".
Prefix(path, k) ==
    IF k = 1 THEN path[1][1]
    ELSE Prefix(path, k - 1) \o "_" \o path[k][1]

\* P + separator + N, cut to its trailing 30 characters.
ExpectedName(path, n) ==
    LET full == Prefix(path, Len(path)) \o "_" \o n[1]
    IN  IF Len(full) > 30
        THEN Str(SubSeq(full, Len(full) - 29, Len(full)))
        ELSE Str(full)

\* No structure has a name of more than 30 characters.
NamesFit ==
    \A id \in Ids :
        (IsFields(mid_map, id) /\ mid_map[id].name # NULL)
            => Len(mid_map[id].name[1]) <= 30

\* C9: a named alias with display name N, declared under namespace prefix
\* P and pointing at a structure that has no name yet, sets the name of
\* that structure to P + separator + N, cut to its trailing 30 characters
\* when it is longer; a structure name never exceeds 30 characters.
C9_NamePropagation ==
    /\ []NamesFit
    /\ [][ \A mid \in Ids, emid \in Ids, n \in TypeNames, p \in PkgPaths :
             ( /\ ScanPkgType(mid, emid, n, p)
               /\ IsFields(mid_map, emid)
               /\ mid_map[emid].name = NULL )
             => mid_map'[emid].name = ExpectedName(p, n) ]_vars

\* C9 for the aliases the store takes: the identifier of the alias is not
\* yet defined and the structure it points at has at least one field.
C9_NameWhenDefined ==
    /\ []NamesFit
    /\ [][ \A mid \in Ids, emid \in Ids, n \in TypeNames, p \in PkgPaths :
             ( /\ ScanPkgType(mid, emid, n, p)
               /\ mid \notin defined
               /\ IsFields(mid_map, emid)
               /\ mid_map[emid].size > 0
               /\ mid_map[emid].name = NULL )
             => mid_map'[emid].name = ExpectedName(p, n) ]_vars

\* A structure carries a name that was cut to its trailing 30 characters.
C9_Witness ==
    \E id \in Ids, n \in TypeNames, p \in PkgPaths :
        /\ IsFields(mid_map, id)
        /\ Len(Prefix(p, Len(p)) \o "_" \o n[1]) > 30
        /\ mid_map[id].name = ExpectedName(p, n)
        /\ \E a \in Ids : /\ IsAlias(mid_map, a)
                          /\ mid_map[a].reference_of_mid = id
                          /\ mid_map[a].name = n

\* C10: the type of every emitted element is the datasetId of the first
\* entry on its field's Alias chain that is a primitive or a structure, and
\* the element has an array-size iff the chain holds an array link.
C10_ElementTypes ==
    pc = "done" =>
        \A n \in 1..Len(out.list) :
            LET ds == out.list[n]
            IN  \A e \in 1..Len(ds.elements) :
                    InRange(ds.mid + e) =>
                        LET c == Chain(mid_map, ds.mid + e)
                        IN  /\ Resolves(mid_map, c)
                            /\ ds.elements[e].type =
                                   mid_map[c[Len(c)]].dataSetId
                            /\ ds.elements[e].array_size # NULL
                                   <=> ArrayLinks(mid_map, c) # {}

\* What C10 states holds in the stores in which the fields follow their
\* structure.
C10_WhenFieldsFollow == FieldsFollow(mid_map) => C10_ElementTypes

\* The scanner has processed the whole document.
Scanned == pc \in {"operator", "params", "done", "hang", "segv", "overflow"}

\* The identifiers that follow the structure id, one for each field.
Run(m, id) == (id + 1)..(id + m[id].size)

\* No identifier lies in the run of two structures.
RunsDisjoint(m) ==
    \A a \in Ids, b \in Ids :
        (a # b /\ IsFields(m, a) /\ IsFields(m, b))
            => Run(m, a) \cap Run(m, b) = {}

\* C11: after the scanner has processed a document, every entry Fields(n)
\* at identifier id owns the identifiers id+1 .. id+n: each of them lies in
\* the identifier range and holds a defined Alias entry made from a field
\* declaration, and no identifier lies in the run of two structures.
C11_FieldsOwnRun ==
    Scanned => FieldsFollow(mid_map) /\ RunsDisjoint(mid_map)

\* propagateName on an entry that has a name, or that is no structure,
\* returns false and changes nothing in the store m.
PropagateRefused(m) ==
    \A id \in Ids, n \in TypeNames, p \in {NULL, Str("P")} :
        (m[id].name # NULL \/ ~IsFields(m, id))
            => propagateName(m, id, n, p) = [ret |-> FALSE, map |-> m]

\* A step keeps datasetId, datasetCode, referenceOf and size of every
\* defined entry.
DefinitionKept ==
    \A id \in defined :
        /\ mid_map'[id].dataSetId = mid_map[id].dataSetId
        /\ mid_map'[id].dsid = mid_map[id].dsid
        /\ mid_map'[id].reference_of_mid = mid_map[id].reference_of_mid
        /\ mid_map'[id].size = mid_map[id].size

\* A step keeps every name that is set.
NameKept ==
    \A id \in DOMAIN mid_map :
        mid_map[id].name # NULL => mid_map'[id].name = mid_map[id].name

\* Only a call of require changes a refCount.
RefCountByRequire ==
    (\E id \in DOMAIN mid_map : mid_map'[id].ref_cnt # mid_map[id].ref_cnt)
        => \E mid \in ParamIds : VisitParam(mid)

\* compile changes no entry.
CompileReadsOnly ==
    \A ro \in BOOLEAN, oob \in OutOfBounds :
        Compile(ro, oob) => mid_map' = mid_map

UserDefined(m, t) == \E s \in Ids : IsFields(m, s) /\ m[s].dataSetId = t

\* Every structure type of an element of the list has its data-set in the
\* list.
Closed(m, list) ==
    \A n \in 1..Len(list) : \A e \in 1..Len(list[n].elements) :
        UserDefined(m, list[n].elements[e].type)
            => \E k \in 1..Len(list) : list[k].id = list[n].elements[e].type

\* C13: the required-only output is referentially closed: when compile in
\* required-only mode emits a data-set with an element whose type is the
\* id of a structure entry, a data-set with that id is in the same list.
\* (Stated for the stores in which the fields follow their structure.)
C13_RequiredClosed ==
    (pc = "done" /\ out.requiredOnly /\ FieldsFollow(mid_map))
        => Closed(mid_map, out.list)

====
